---- MODULE Spec2Model ----
(***************************************************************************)
(* MuseLoop: the iteration controller (core/loop.py run_loop), the agent   *)
(* graph it drives (core/graph.py) and the Director's bounded fan-out      *)
(* (agents/director.py).                                                   *)
(*                                                                         *)
(* Scores are kept in tenths: 7 stands for 0.7.                            *)
(***************************************************************************)
EXTENDS Integers, Sequences, FiniteSets, TLC

\* ------------------------------------------------------------------ bounds
MaxIter == 3            \* largest config.max_iterations explored
MaxConcurrent == 2      \* largest Director concurrency limit explored
MaxPlan == 3            \* longest plan the Script model returns (fan-out runs)
MaxText == 5            \* longest backend response, in lexical units

\* --------------------------------------------------------------- constants
BorderlineLow == 5      \* after_critic: 0.5 < score
BorderlineHigh == 9     \* after_critic: score < 0.9
CriticNoAssetScore == 0 \* CriticAgent.run, empty assets
CriticErrorScore == 5   \* CriticAgent.run, parse/value error
ErrorDocLimit == 200    \* _parse_json_response: text[:200] in the error

\* the environment's repertoire (what the fakes may answer)
Thresholds == {3, 7}
LLMScores == {3, 6, 9}
FanoutScores == {8}
FanoutIterations == {1, 2}
CriticResponses == {"score", "unparseable", "score_not_numeric", "score_null", "not_mapping"}
CriticUnitResponses == CriticResponses \cup {"score_missing", "feedback_not_text"}
MemoryResponses == {"schema", "unparseable", "not_mapping"}
ScriptResponses == {"plan", "plan_missing", "unparseable", "llm_error", "not_mapping",
                    "plan_not_list", "script_not_text"}
ResearchResponses == {"full", "keywords_only", "error"}
SkillOutcomes == {"success", "failure", "raise"}
RegisteredSkills == {"image_gen"}
SkillNames == {"image_gen", "unknown_skill"}

VARIABLES
    \* configuration and environment
    max_iterations, quality_threshold, human_in_loop, max_concurrent, env,
    \* run_loop locals
    pc, i, state, best_score, best_iteration, best_state, all_assets,
    \* the pass in flight (graph executor)
    node, gs, tasks_to_run, task_status, permits,
    \* collaborators: progress sink, versioning
    events, commits, tags,
    \* observation: the loop's data when the current iteration started, and
    \* the nodes the pass in flight has executed so far
    pre, path,
    \* one direct call of a routing function or of an agent method (the unit
    \* tests' way of driving them): its arguments and what came back
    call, ret

vars == <<max_iterations, quality_threshold, human_in_loop, max_concurrent, env,
          pc, i, state, best_score, best_iteration, best_state, all_assets,
          node, gs, tasks_to_run, task_status, permits,
          events, commits, tags, pre, path, call, ret>>

cfgVars == <<max_iterations, quality_threshold, human_in_loop, max_concurrent, env>>
loopVars == <<pc, i, state, best_score, best_iteration, best_state, all_assets>>
dirVars == <<tasks_to_run, task_status, permits>>
outVars == <<events, commits, tags>>
unitVars == <<call, ret>>

\* ------------------------------------------------------------ data helpers
NoCritique == [present |-> FALSE, score |-> 0, pass |-> FALSE]

EmptyMemory == [themes |-> FALSE, style_keywords |-> "none", recommendations |-> "none"]

\* MemoryAgent.run, iteration <= 1: the fixed skeleton
MemorySkeleton == [themes |-> TRUE, style_keywords |-> "none", recommendations |-> "none"]

MaxOf(S) == CHOOSE x \in S : \A y \in S : y <= x

MinOf(S) == CHOOSE x \in S : \A y \in S : x <= y

\* dict.get(key, default) on a state that may lack the key
Get(s, key, default) == IF key \in DOMAIN s THEN s[key] ELSE default

\* state.get("critique", {}).get("score", 0.0)
CritScore(s) ==
    LET critique == Get(s, "critique", NoCritique)
    IN IF critique.present THEN critique.score ELSE 0

\* state.get("critique", {}).get("pass", False)
CritPass(s) ==
    LET critique == Get(s, "critique", NoCritique)
    IN IF critique.present THEN critique.pass ELSE FALSE

InitialState ==
    [brief |-> "brief", iteration |-> 0, plan |-> <<>>, assets |-> <<>>,
     critique |-> NoCritique, messages |-> <<>>, memory |-> EmptyMemory,
     status |-> "planning", director_retries |-> 0, human_approval |-> "None",
     last_error |-> ""]

NoSnapshot == [taken |-> FALSE]

\* no direct call is in progress
NoCall == [fn |-> "none"]

NoReturn == [done |-> FALSE]

Ev(name, it, score, passed, count, bs, bi, total) ==
    [name |-> name, iteration |-> it, score |-> score, passed |-> passed,
     asset_count |-> count, best_score |-> bs, best_iteration |-> bi,
     total_assets |-> total]

\* _emit: the sink is called; whatever it raises is swallowed
Emit(evs, e) == Append(evs, e)

RECURSIVE SeqFilterOk(_, _, _)
\* the zip(tasks_to_run, results) loop of DirectorAgent.run: one asset per
\* truthy non-exception result, in tasks_to_run order
SeqFilterOk(ts, st, it) ==
    IF ts = <<>> THEN <<>>
    ELSE LET rest == SeqFilterOk(Tail(ts), Tail(st), it)
         IN IF Head(st) = "ok"
            THEN <<[step |-> Head(ts).step, skill |-> Head(ts).skill,
                    made_in |-> it, iteration |-> 0]>> \o rest
            ELSE rest

\* ------------------------------------------- BaseAgent._parse_json_response
\* A response is a sequence of lexical units: the braces, the three-backtick
\* fence (one unit), the word json, the JSON literal null and a whitespace
\* character.
\* Adjacent units are adjacent in the text.
TextUnits == {"{", "}", "fence", "json", "null", " "}

\* the number of characters of a unit
Width(u) == CASE u = "fence" -> 3
              [] u \in {"json", "null"} -> 4
              [] OTHER -> 1

\* len(text)
Chars(t) ==
    LET wide(w) == Cardinality({k \in 1..Len(t) : Width(t[k]) = w})
    IN wide(1) + 3 * wide(3) + 4 * wide(4)

\* text[:n], up to the last unit that fits whole
Take(t, n) ==
    LET room == IF n < Len(t) THEN n ELSE Len(t)
    IN SubSeq(t, 1, MaxOf({k \in 0..room : Chars(SubSeq(t, 1, k)) <= n}))

\* str.strip()
Strip(t) ==
    LET inked == {k \in 1..Len(t) : t[k] # " "}
    IN IF inked = {} THEN <<>> ELSE SubSeq(t, MinOf(inked), MaxOf(inked))

Unparsed == [ok |-> FALSE, value |-> "none"]

\* json.loads: over these units the JSON documents are null and the empty
\* object, with any whitespace around them and inside the braces
Loads(t) ==
    LET u == Strip(t)
    IN IF u = <<"null">> THEN [ok |-> TRUE, value |-> "null"]
       ELSE IF /\ Len(u) >= 2
               /\ u[1] = "{"
               /\ u[Len(u)] = "}"
               /\ \A k \in 2..(Len(u) - 1) : u[k] = " "
            THEN [ok |-> TRUE, value |-> "{}"]
            ELSE Unparsed

Fences(t) == {k \in 1..Len(t) : t[k] = "fence"}

\* _JSON_BLOCK_RE.search(text): the leftmost fence that has a fence after it
HasFence(t) == Cardinality(Fences(t)) >= 2

\* match.group(1).strip(): what lies between the first fence, less a json
\* tag right behind it, and the next fence
FenceBody(t) ==
    LET open == MinOf(Fences(t))
        tagged == open + 1 <= Len(t) /\ t[open + 1] = "json"
        from == IF tagged THEN open + 2 ELSE open + 1
        close == MinOf({k \in Fences(t) : k >= from})
    IN Strip(SubSeq(t, from, close - 1))

\* text.find("{") and text.rfind("}"): brace_start != -1 and
\* brace_end > brace_start
HasBraces(t) ==
    /\ \E k \in 1..Len(t) : t[k] = "{"
    /\ \E k \in 1..Len(t) : t[k] = "}"
    /\ MaxOf({k \in 1..Len(t) : t[k] = "}"}) > MinOf({k \in 1..Len(t) : t[k] = "{"})

\* text[brace_start : brace_end + 1]
BraceSpan(t) ==
    SubSeq(t, MinOf({k \in 1..Len(t) : t[k] = "{"}),
              MaxOf({k \in 1..Len(t) : t[k] = "}"}))

Parsed(v) == [raised |-> FALSE, value |-> v]

\* lines 87-91: the JSONDecodeError and the document it carries
DecodeError(text) ==
    [raised |-> TRUE, error |-> "JSONDecodeError",
     doc |-> Take(text, ErrorDocLimit),
     doc_chars |-> IF Chars(text) < ErrorDocLimit THEN Chars(text) ELSE ErrorDocLimit]

\* the brace span is tried before the fenced block
_parse_json_response_braces_first(response) ==
    LET text == Strip(response)
    IN IF Loads(text).ok THEN Parsed(Loads(text).value)
       ELSE IF HasBraces(text) /\ Loads(BraceSpan(text)).ok
            THEN Parsed(Loads(BraceSpan(text)).value)
       ELSE IF HasFence(text) /\ Loads(FenceBody(text)).ok
            THEN Parsed(Loads(FenceBody(text)).value)
       ELSE DecodeError(text)

\* _parse_json_response, lines 60-91
_parse_json_response(response) ==
    LET text == Strip(response)
    IN IF Loads(text).ok THEN Parsed(Loads(text).value)
       ELSE IF HasFence(text) /\ Loads(FenceBody(text)).ok
            THEN Parsed(Loads(FenceBody(text)).value)
       ELSE IF HasBraces(text) /\ Loads(BraceSpan(text)).ok
            THEN Parsed(Loads(BraceSpan(text)).value)
       ELSE DecodeError(text)

\* ---------------------------------------------------------------- routing
\* truthiness of a memory entry: "none" is a missing key, "empty" an empty
\* list, "full" a non-empty one
Truthy(entry) == entry = "full"

\* recommendations are not looked at
should_research_keywords_only(s) ==
    LET memory == Get(s, "memory", EmptyMemory)
    IN IF Get(s, "iteration", 1) > 1 /\ Truthy(memory.style_keywords)
       THEN "script" ELSE "research"

should_research(s) ==
    LET memory == Get(s, "memory", EmptyMemory)
    IN IF /\ Get(s, "iteration", 1) > 1
          /\ Truthy(memory.style_keywords)
          /\ Truthy(memory.recommendations)
       THEN "script" ELSE "research"

\* a retry test that forgets the cap
after_director_uncapped(s) ==
    LET assets == Get(s, "assets", <<>>)
        retries == Get(s, "director_retries", 0)
    IN IF assets = <<>> /\ retries >= 1 THEN "director" ELSE "critic"

\* a retry whatever the first attempt produced
after_director_ignoring_assets(s) ==
    IF Get(s, "director_retries", 0) = 1 THEN "director" ELSE "critic"

after_director(s) ==
    LET assets == Get(s, "assets", <<>>)
        retries == Get(s, "director_retries", 0)
    IN IF assets = <<>> /\ retries = 1 THEN "director" ELSE "critic"

\* the borderline band with its lower end included
after_critic_inclusive(s) ==
    LET score == CritScore(s)
        approval == Get(s, "human_approval", "None")
    IN IF approval = "None" /\ BorderlineLow <= score /\ score < BorderlineHigh
       THEN "human_approval" ELSE "END"

after_critic(s) ==
    LET score == CritScore(s)
        approval == Get(s, "human_approval", "None")
    IN IF approval = "None" /\ BorderlineLow < score /\ score < BorderlineHigh
       THEN "human_approval" ELSE "END"

\* ------------------------------------------------------------------- init
InitCommon ==
    /\ pc = "start"
    /\ i = 0
    /\ state = InitialState
    /\ best_score = 0
    /\ best_iteration = 0
    /\ best_state = NoSnapshot
    /\ all_assets = <<>>
    /\ node = "none"
    /\ gs = InitialState
    /\ tasks_to_run = <<>>
    /\ task_status = <<>>
    /\ permits = max_concurrent
    /\ events = <<>>
    /\ commits = <<>>
    /\ tags = <<>>
    /\ pre = [all_assets |-> <<>>, state |-> InitialState, best_score |-> 0,
              best_iteration |-> 0, commits |-> <<>>, outcome |-> "none"]
    /\ path = <<>>

\* many iterations over short plans
Init ==
    /\ max_iterations \in 0..MaxIter
    /\ quality_threshold \in Thresholds
    /\ human_in_loop \in {"absent", "true", "false"}
    /\ max_concurrent = 1
    /\ env = [plan_cap |-> 1, skills |-> SkillNames, scores |-> LLMScores,
              research |-> {"full"}, critic |-> CriticResponses,
              reported |-> {TRUE}, script |-> {"plan", "unparseable"},
              prompts |-> {"brief"}]
    /\ InitCommon
    /\ call = NoCall
    /\ ret = NoReturn

\* few iterations over plans longer than the concurrency limit
InitFanout ==
    /\ max_iterations \in FanoutIterations
    /\ quality_threshold = 7
    /\ human_in_loop = "true"
    /\ max_concurrent \in 1..MaxConcurrent
    /\ env = [plan_cap |-> MaxPlan, skills |-> RegisteredSkills,
              scores |-> FanoutScores, research |-> {"error"},
              critic |-> CriticResponses, reported |-> {TRUE},
              script |-> {"plan", "unparseable"}, prompts |-> {"brief"}]
    /\ InitCommon
    /\ call = NoCall
    /\ ret = NoReturn

\* ------------------------------------------------------- run_loop: startup
\* lines 53-98: brief_loaded, skills_discovered, build_graph, git.init and
\* the initial state. MuseLoopConfig declares no human_in_loop field, so
\* build_graph's read of config.human_in_loop raises AttributeError unless
\* the configuration object handed in provides the attribute.
Startup ==
    /\ pc = "start"
    /\ events' = Emit(Emit(events, Ev("brief_loaded", 0, 0, FALSE, 0, 0, 0, 0)),
                      Ev("skills_discovered", 0, 0, FALSE, 0, 0, 0, 0))
    /\ pc' = IF human_in_loop = "absent" THEN "raised" ELSE "loop_head"
    /\ UNCHANGED <<cfgVars, unitVars, i, state, best_score, best_iteration, best_state,
                   all_assets, node, gs, dirVars, commits, tags, pre, path>>

\* the reset left out
ResetConditional_skipped(s) == s

\* lines 102-104
ResetConditional(s) ==
    [s EXCEPT !.director_retries = 0, !.human_approval = "None"]

\* lines 100-116: the head of one iteration up to graph.ainvoke(state)
IterationStart ==
    /\ pc = "loop_head"
    /\ i < max_iterations
    /\ pre' = [all_assets |-> all_assets, state |-> state,
               best_score |-> best_score, best_iteration |-> best_iteration,
               commits |-> commits, outcome |-> "running"]
    /\ state' = ResetConditional([state EXCEPT !.iteration = i + 1])
    /\ events' = Emit(events, Ev("iteration_start", i + 1, 0, FALSE, 0, 0, 0, 0))
    /\ gs' = state'
    /\ node' = "memory"
    /\ path' = <<>>
    /\ pc' = "in_pass"
    /\ UNCHANGED <<cfgVars, unitVars, i, best_score, best_iteration, best_state,
                   all_assets, dirVars, commits, tags>>

\* an exception leaves a node or a routing function: ainvoke re-raises it,
\* wait_for re-raises it, and run_loop has no handler for it
GraphRaises ==
    /\ pc' = "raised"
    /\ node' = "none"
    /\ UNCHANGED <<cfgVars, unitVars, i, state, best_score, best_iteration, best_state,
                   all_assets, gs, dirVars, outVars, pre>>

\* ------------------------------------------------------------ graph nodes
MemoryNode ==
    /\ pc = "in_pass"
    /\ node = "memory"
    /\ path' = Append(path, "memory")
    /\ \E r \in MemoryResponses :
         IF gs.iteration <= 1
         THEN /\ gs' = [gs EXCEPT !.memory = MemorySkeleton,
                                  !.status = "planning",
                                  !.messages = Append(@, "memory")]
              /\ node' = should_research(gs')
              /\ UNCHANGED <<cfgVars, unitVars, loopVars, dirVars, outVars, pre>>
         ELSE CASE r = "schema" ->
                     /\ gs' = [gs EXCEPT !.memory = MemorySkeleton,
                                         !.status = "planning",
                                         !.messages = Append(@, "memory")]
                     /\ node' = should_research(gs')
                     /\ UNCHANGED <<cfgVars, unitVars, loopVars, dirVars, outVars, pre>>
                [] r = "unparseable" ->
                     /\ gs' = [gs EXCEPT !.status = "planning",
                                         !.messages = Append(@, "memory")]
                     /\ node' = should_research(gs')
                     /\ UNCHANGED <<cfgVars, unitVars, loopVars, dirVars, outVars, pre>>
                [] r = "not_mapping" ->
                     \* memory becomes a list; should_research calls
                     \* memory.get on it: AttributeError
                     GraphRaises

ResearchNode ==
    /\ pc = "in_pass"
    /\ node = "research"
    /\ path' = Append(path, "research")
    /\ \E r \in env.research :
         gs' = [gs EXCEPT
                  !.memory = CASE r = "full" ->
                                    [@ EXCEPT !.style_keywords = "full",
                                              !.recommendations = "full"]
                               [] r = "keywords_only" ->
                                    [@ EXCEPT !.style_keywords = "full",
                                              !.recommendations = "empty"]
                               [] r = "error" -> @,
                  !.messages = Append(@, "research")]
    /\ node' = "script"
    /\ UNCHANGED <<cfgVars, unitVars, loopVars, dirVars, outVars, pre>>

\* the plans the Script model may answer with: step k names a skill and
\* carries a prompt
PlanOf(f, prompt) ==
    [k \in DOMAIN f |-> [step |-> k, skill |-> f[k], prompt |-> prompt]]

Plans(cap, skills, prompts) ==
    UNION {{PlanOf(f, q) : f \in [1..n -> skills], q \in prompts} : n \in 0..cap}

\* a plan whose entry is not a mapping
MalformedPlan == <<[step |-> 0, skill |-> "not_a_mapping"]>>

\* a fallback without a step
FallbackPlan_empty(brief) == <<>>

\* ScriptAgent.run, lines 67-75: one image_gen step whose prompt is
\* brief.get("task", ""); the state's brief is kept as its task text
FallbackPlan(brief) == <<[step |-> 1, skill |-> "image_gen", prompt |-> brief]>>

\* ScriptAgent.run on state s when the backend answers r: the plan of the
\* update it returns. Every exception of the try block is caught.
\*   plan             a mapping whose plan is a list and whose script is text
\*   plan_missing     a mapping without plan: result.get("plan", [])
\*   unparseable      _parse_json_response raises JSONDecodeError
\*   llm_error        the backend call raises
\*   not_mapping      list.get raises AttributeError
\*   plan_not_list    len(5) raises TypeError
\*   script_not_text  script[:200] on a number raises TypeError
ScriptRun(s, r) ==
    CASE r.kind = "plan" -> [raised |-> FALSE, plan |-> r.plan]
      [] r.kind = "plan_missing" -> [raised |-> FALSE, plan |-> <<>>]
      [] r.kind \in {"unparseable", "llm_error", "not_mapping",
                     "plan_not_list", "script_not_text"} ->
           [raised |-> FALSE, plan |-> FallbackPlan(s.brief)]

ScriptNode ==
    /\ pc = "in_pass"
    /\ node = "script"
    /\ path' = Append(path, "script")
    /\ \E p \in Plans(env.plan_cap, env.skills, env.prompts) \cup {MalformedPlan},
          k \in env.script :
         gs' = [gs EXCEPT !.plan = ScriptRun(gs, [kind |-> k, plan |-> p]).plan,
                          !.status = "generating",
                          !.messages = Append(@, "script")]
    /\ node' = "director"
    /\ UNCHANGED <<cfgVars, unitVars, loopVars, dirVars, outVars, pre>>

\* ---------------------------------------------------------------- Director
\* the empty-plan return counts as a failed attempt too
DirectorDone_always_counting(assets, countRetry) ==
    /\ gs' = [gs EXCEPT !.assets = assets,
                        !.status = "critiquing",
                        !.director_retries = IF assets = <<>> THEN @ + 1 ELSE @,
                        !.messages = Append(@, "director")]
    /\ node' = after_director(gs')

\* assets merged the way messages are: appended to what the state holds
DirectorDone_appending(assets, countRetry) ==
    /\ gs' = [gs EXCEPT !.assets = @ \o assets,
                        !.status = "critiquing",
                        !.director_retries =
                            IF countRetry /\ assets = <<>> THEN @ + 1 ELSE @,
                        !.messages = Append(@, "director")]
    /\ node' = after_director(gs')

\* DirectorAgent.run, lines 87-100: the update it returns, merged, and the
\* route after_director picks from the merged state; lines 42-52 (no plan)
\* return no director_retries entry, so the counter is left as it is
DirectorDone(assets, countRetry) ==
    /\ gs' = [gs EXCEPT !.assets = assets,
                        !.status = "critiquing",
                        !.director_retries =
                            IF countRetry /\ assets = <<>> THEN @ + 1 ELSE @,
                        !.messages = Append(@, "director")]
    /\ node' = after_director(gs')

\* lines 59-66: the plan's tasks whose skill the registry has, in plan order
TasksToRun(plan) == SelectSeq(plan, LAMBDA t : t.skill \in RegisteredSkills)

\* _execute_task_inner, lines 122-142, for a task whose capability ends with
\* outcome: the asset record carries the task's own step
ExecuteTask(task, iteration, outcome) ==
    IF outcome = "success"
    THEN [ok |-> TRUE,
          asset |-> [step |-> task.step, skill |-> task.skill,
                     made_in |-> iteration, iteration |-> 0]]
    ELSE [ok |-> FALSE]

\* the tasks as they complete: order[j] is the position in tasks_to_run of
\* the j-th task to finish
Completions(tasks, iteration, outcomes, order) ==
    [j \in 1..Len(order) |->
        [task |-> order[j],
         result |-> ExecuteTask(tasks[order[j]], iteration, outcomes[order[j]])]]

\* results handed over in the order the tasks completed
gather_as_completed(done) == [j \in 1..Len(done) |-> done[j].result]

\* asyncio.gather(*aws, return_exceptions=True): one result per awaitable,
\* in the order the awaitables were passed
gather(done) ==
    [k \in 1..Len(done) |->
        done[CHOOSE j \in 1..Len(done) : done[j].task = k].result]

\* lines 75-85: the assets collected from the results, in results order
CollectAssets(results) ==
    LET good == SelectSeq(results, LAMBDA r : r.ok)
    IN [k \in 1..Len(good) |-> good[k].asset]

\* DirectorAgent.run on a state with this plan, when the capabilities end
\* with outcomes (by position in tasks_to_run) and complete in order
DirectorRun(plan, iteration, outcomes, order) ==
    IF plan = <<>> THEN [raised |-> FALSE, assets |-> <<>>, counted |-> FALSE]
    ELSE LET tasks == TasksToRun(plan)
             results == IF tasks = <<>> THEN <<>>
                        ELSE gather(Completions(tasks, iteration, outcomes, order))
         IN [raised |-> FALSE, assets |-> CollectAssets(results), counted |-> TRUE]

\* lines 36-73: up to the await on gather
DirectorStart ==
    /\ pc = "in_pass"
    /\ node = "director"
    /\ path' = Append(path, "director")
    /\ IF gs.plan = <<>>
       THEN \* lines 42-52: no director_retries in the update
            /\ DirectorDone(<<>>, FALSE)
            /\ tasks_to_run' = <<>>
            /\ task_status' = <<>>
            /\ UNCHANGED <<cfgVars, unitVars, loopVars, permits, outVars, pre>>
       ELSE IF \E k \in 1..Len(gs.plan) : gs.plan[k].skill = "not_a_mapping"
       THEN \* task.get on something that is not a mapping: AttributeError
            /\ GraphRaises
       ELSE LET run == TasksToRun(gs.plan)
            IN IF run = <<>>
               THEN /\ DirectorDone(<<>>, TRUE)
                    /\ tasks_to_run' = <<>>
                    /\ task_status' = <<>>
                    /\ UNCHANGED <<cfgVars, unitVars, loopVars, permits, outVars, pre>>
               ELSE /\ tasks_to_run' = run
                    /\ task_status' = [k \in 1..Len(run) |-> "waiting"]
                    /\ node' = "director_gather"
                    /\ UNCHANGED <<cfgVars, unitVars, loopVars, gs, permits, outVars, pre>>

\* a limiter that never blocks
CanAcquire_unbounded(p) == TRUE

\* asyncio.Semaphore.acquire: a permit is taken only when one is free
CanAcquire(p) == p > 0

\* _execute_task: async with self._semaphore, entry
TaskAcquire(k) ==
    /\ pc = "in_pass"
    /\ node = "director_gather"
    /\ task_status[k] = "waiting"
    /\ CanAcquire(permits)
    /\ permits' = permits - 1
    /\ task_status' = [task_status EXCEPT ![k] = "running"]
    /\ UNCHANGED <<cfgVars, unitVars, loopVars, node, gs, tasks_to_run, outVars, pre, path>>

\* _execute_task_inner, lines 128-142: what gather records for the task
TaskResult(outcome) ==
    CASE outcome = "success" -> "ok"
      [] outcome = "failure" -> "failed"
      [] outcome = "raise" -> "raised"

\* skill.execute returns or raises; leaving the async with returns the permit
TaskFinish(k) ==
    /\ pc = "in_pass"
    /\ node = "director_gather"
    /\ task_status[k] = "running"
    /\ \E o \in SkillOutcomes :
         task_status' = [task_status EXCEPT ![k] = TaskResult(o)]
    /\ permits' = permits + 1
    /\ UNCHANGED <<cfgVars, unitVars, loopVars, node, gs, tasks_to_run, outVars, pre, path>>

Settled(st) == st \in {"ok", "failed", "raised"}

\* gather without return_exceptions: the first exception ends the wait
GatherDone_failfast(st) ==
    \/ \A k \in DOMAIN st : Settled(st[k])
    \/ \E k \in DOMAIN st : st[k] \in {"failed", "raised"}

\* asyncio.gather(..., return_exceptions=True): done when every task is
GatherDone(st) == \A k \in DOMAIN st : Settled(st[k])

\* lines 75-100: gather has every result (the task records stay readable,
\* as results does, until the next Director run or the end of the pass)
DirectorReturn ==
    /\ pc = "in_pass"
    /\ node = "director_gather"
    /\ GatherDone(task_status)
    /\ DirectorDone(SeqFilterOk(tasks_to_run, task_status, gs.iteration), TRUE)
    /\ UNCHANGED <<cfgVars, unitVars, loopVars, dirVars, outVars, pre, path>>

\* ------------------------------------------------------------------ Critic
\* CriticAgent.run, line 74
Passes(score, threshold) == score >= threshold

\* an empty-assets test that never fires
NothingToJudge_never(assets) == FALSE

\* line 29: not assets
NothingToJudge(assets) == assets = <<>>

\* the model's own pass flag is kept
Judged_trusting(r, threshold) ==
    [present |-> TRUE, score |-> r.score, pass |-> r.pass]

\* lines 72-74: the critique built from a parsed response r; its pass entry
\* is overwritten
Judged(r, threshold) ==
    [present |-> TRUE, score |-> r.score, pass |-> Passes(r.score, threshold)]

\* lines 30-38
NoAssetCritique == [present |-> TRUE, score |-> CriticNoAssetScore, pass |-> FALSE]

\* lines 99-106
ErrorCritique == [present |-> TRUE, score |-> CriticErrorScore, pass |-> FALSE]

\* CriticAgent.run on state s when the model answers r: whether an exception
\* leaves run, the critique of the update it returns otherwise, and how often
\* the backend was called.
\*   score              a mapping with a numeric score
\*   score_missing      a mapping without score: result.get("score", 0.0)
\*   unparseable        _parse_json_response raises JSONDecodeError (caught)
\*   score_not_numeric  float("high") raises ValueError (caught)
\*   score_null         float(None) raises TypeError (not in the except tuple)
\*   not_mapping        list.get raises AttributeError (not in the tuple)
\*   feedback_not_text  result.get("feedback")[:200] on a number: TypeError
CriticRun(s, r, threshold) ==
    IF NothingToJudge(Get(s, "assets", <<>>))
    THEN [raised |-> FALSE, llm_calls |-> 0, critique |-> NoAssetCritique]
    ELSE CASE r.kind = "score" ->
                [raised |-> FALSE, llm_calls |-> 1,
                 critique |-> Judged(r, threshold)]
           [] r.kind = "score_missing" ->
                [raised |-> FALSE, llm_calls |-> 1,
                 critique |-> Judged([r EXCEPT !.score = 0], threshold)]
           [] r.kind \in {"unparseable", "score_not_numeric"} ->
                [raised |-> FALSE, llm_calls |-> 1, critique |-> ErrorCritique]
           [] r.kind \in {"score_null", "not_mapping", "feedback_not_text"} ->
                [raised |-> TRUE, llm_calls |-> 1, critique |-> NoCritique]

\* the pass always asks after_critic
CriticRoute_unconditional(s, hil) == after_critic(s)

\* build_graph, lines 122-130: the edge out of critic
CriticRoute(s, hil) == IF hil = "true" THEN after_critic(s) ELSE "END"

CriticNode ==
    /\ pc = "in_pass"
    /\ node = "critic"
    /\ path' = Append(path, "critic")
    /\ \E k \in env.critic, sc \in env.scores, rp \in env.reported :
         LET out == CriticRun(gs, [kind |-> k, score |-> sc, pass |-> rp],
                              quality_threshold)
         IN IF out.raised
            THEN GraphRaises
            ELSE /\ gs' = [gs EXCEPT !.critique = out.critique,
                                     !.messages = Append(@, "critic")]
                 /\ node' = CriticRoute(gs', human_in_loop)
                 /\ UNCHANGED <<cfgVars, unitVars, loopVars, dirVars, outVars, pre>>

\* graph.py lines 60-68
HumanApprovalNode ==
    /\ pc = "in_pass"
    /\ node = "human_approval"
    /\ path' = Append(path, "human_approval")
    /\ gs' = [gs EXCEPT !.human_approval = "approved"]
    /\ node' = "END"
    /\ UNCHANGED <<cfgVars, unitVars, loopVars, dirVars, outVars, pre>>

\* ------------------------------------------------- run_loop: end of a pass
\* the tasks a cancelled gather unwinds: each one that holds a permit leaves
\* its async with and gives the permit back
PermitsHeld(st) == Cardinality({k \in DOMAIN st : st[k] = "running"})

\* cancelled tasks keep the permits they hold
ReleaseOnCancel_leaking(p, st) == p

\* lines 102-105: async with self._semaphore unwinds on CancelledError; a
\* task cancelled while waiting in acquire holds nothing
ReleaseOnCancel(p, st) == p + PermitsHeld(st)

\* the tasks still waiting for a permit
PermitsAwaited(st) == Cardinality({k \in DOMAIN st : st[k] = "waiting"})

\* a timeout handler that keeps the partial pass's assets
AccumulatedAfterTimeout_merging(acc, g) == acc \o g.assets

\* lines 117-124: what the except branch leaves in the accumulated list
AccumulatedAfterTimeout(acc, g) == acc

\* asyncio.wait_for gives up: the pass is cancelled, iteration_timeout is
\* emitted and the loop continues with the next index
PassTimeout ==
    /\ pc = "in_pass"
    /\ node # "END"
    /\ events' = Emit(events, Ev("iteration_timeout", state.iteration, 0, FALSE, 0, 0, 0, 0))
    /\ all_assets' = AccumulatedAfterTimeout(all_assets, gs)
    /\ permits' = ReleaseOnCancel(permits, task_status)
    /\ tasks_to_run' = <<>>
    /\ task_status' = <<>>
    /\ node' = "none"
    /\ i' = i + 1
    /\ pc' = "loop_head"
    /\ pre' = [pre EXCEPT !.outcome = "timeout"]
               @@ [held |-> PermitsHeld(task_status),
                   awaited |-> PermitsAwaited(task_status)]
    /\ UNCHANGED <<cfgVars, unitVars, state, best_score, best_iteration, best_state,
                   gs, commits, tags, path>>

\* lines 126-128: the executor handed back something that is not a dict
PassInvalid ==
    /\ pc = "in_pass"
    /\ node = "END"
    /\ node' = "none"
    /\ i' = i + 1
    /\ pc' = "loop_head"
    /\ pre' = [pre EXCEPT !.outcome = "invalid"]
    /\ tasks_to_run' = <<>>
    /\ task_status' = <<>>
    /\ UNCHANGED <<cfgVars, unitVars, state, best_score, best_iteration, best_state,
                   all_assets, gs, permits, outVars, path>>

RECURSIVE TagAssets(_, _)
\* lines 132-133
TagAssets(assets, it) ==
    IF assets = <<>> THEN <<>>
    ELSE <<[Head(assets) EXCEPT !.iteration = it]>> \o TagAssets(Tail(assets), it)

\* the list is overwritten with the pass's assets
Accumulate_replacing(acc, tagged) == tagged

\* line 134: all_assets.extend(iteration_assets)
Accumulate(acc, tagged) == acc \o tagged

\* a tie replaces the earlier best
IsBetter_orEqual(score, best) == score >= best

\* line 145
IsBetter(score, best) == score > best

\* line 148: every key but messages; assets is the all_assets list itself
Snapshot(s) ==
    [taken |-> TRUE, brief |-> s.brief, iteration |-> s.iteration,
     plan |-> s.plan, critique |-> s.critique, memory |-> s.memory,
     status |-> s.status, director_retries |-> s.director_retries,
     human_approval |-> s.human_approval, last_error |-> s.last_error]

\* best_state["assets"]: line 148 copies the reference that line 138 stored,
\* so the entry is the all_assets list itself, whatever it holds when read
SnapshotAssets(snap, acc) == IF snap.taken THEN acc ELSE <<>>

\* a human approval also ends the loop
ShouldBreak_orApproved(s) == CritPass(s) \/ s.human_approval = "approved"

\* line 159
ShouldBreak(s) == CritPass(s)

\* lines 130-172: the pass returned a dict
PassReturn ==
    /\ pc = "in_pass"
    /\ node = "END"
    /\ LET iteration_assets == TagAssets(gs.assets, i + 1)
           acc == Accumulate(all_assets, iteration_assets)
           st == [gs EXCEPT !.assets = acc]
           score == CritScore(st)
           better == IsBetter(score, best_score)
           bs == IF better THEN score ELSE best_score
       IN /\ all_assets' = acc
          /\ state' = st
          /\ commits' = Append(commits, [iteration |-> i + 1,
                                         count |-> Len(iteration_assets)])
          /\ best_score' = bs
          /\ best_iteration' = IF better THEN i + 1 ELSE best_iteration
          /\ best_state' = IF better THEN Snapshot(st) ELSE best_state
          /\ events' = Emit(events, Ev("iteration_complete", st.iteration, score,
                                       CritPass(st), Len(iteration_assets), bs, 0, 0))
          /\ pc' = IF ShouldBreak(st) THEN "after_loop" ELSE "loop_head"
          /\ i' = IF ShouldBreak(st) THEN i ELSE i + 1
    /\ node' = "none"
    /\ pre' = [pre EXCEPT !.outcome = "complete"]
    /\ tasks_to_run' = <<>>
    /\ task_status' = <<>>
    /\ UNCHANGED <<cfgVars, unitVars, gs, permits, tags, path>>

\* the pass test left out
ShouldTagBest_always(s, snap) == snap.taken

\* line 175
ShouldTagBest(s, snap) == ~CritPass(s) /\ snap.taken

\* lines 174-198: after the for loop
LoopExit ==
    /\ \/ pc = "after_loop"
       \/ pc = "loop_head" /\ i >= max_iterations
    /\ tags' = IF ShouldTagBest(state, best_state)
               THEN Append(tags, best_iteration) ELSE tags
    /\ state' = [state EXCEPT !.status = "complete"]
    /\ events' = Emit(events, Ev("loop_complete", state.iteration, 0, FALSE, 0,
                                 best_score, best_iteration, Len(all_assets)))
    /\ pc' = "done"
    /\ UNCHANGED <<cfgVars, unitVars, i, best_score, best_iteration, best_state,
                   all_assets, node, gs, dirVars, commits, pre, path>>

\* ------------------------------------------------------------------- spec
Next ==
    \/ Startup
    \/ IterationStart
    \/ MemoryNode
    \/ ResearchNode
    \/ ScriptNode
    \/ DirectorStart
    \/ \E k \in 1..Len(task_status) : TaskAcquire(k)
    \/ \E k \in 1..Len(task_status) : TaskFinish(k)
    \/ DirectorReturn
    \/ CriticNode
    \/ HumanApprovalNode
    \/ PassTimeout
    \/ PassInvalid
    \/ PassReturn
    \/ LoopExit

Spec == Init /\ [][Next]_vars

SpecFanout == InitFanout /\ [][Next]_vars

\* ------------------------------------------------- direct calls (unit level)
\* the states the routing functions are called with: any subset of the keys
\* they read, over a state that has at least its brief
AnAsset == [step |-> 1, skill |-> "image_gen", made_in |-> 1, iteration |-> 0]

AssetLists == {<<>>, <<AnAsset>>}

RetryValues == 0..3

AfterDirectorStates ==
    {[brief |-> "brief", assets |-> a, director_retries |-> r] :
        a \in AssetLists, r \in RetryValues}
    \cup {[brief |-> "brief", assets |-> a] : a \in AssetLists}
    \cup {[brief |-> "brief", director_retries |-> r] : r \in RetryValues}

ScoreValues == 0..10

Critiques ==
    {NoCritique} \cup [present : {TRUE}, score : ScoreValues, pass : BOOLEAN]

\* None, {"approved": True}, {"approved": False}
Approvals == {"None", "approved", "rejected"}

AfterCriticStates ==
    {[brief |-> "brief", critique |-> c, human_approval |-> h] :
        c \in Critiques, h \in Approvals}
    \cup {[brief |-> "brief", human_approval |-> h] : h \in Approvals}
    \cup {[brief |-> "brief", critique |-> c] : c \in Critiques}

MemoryEntries == {"none", "empty", "full"}

Memories ==
    [themes : BOOLEAN, style_keywords : MemoryEntries,
     recommendations : MemoryEntries]

IterationValues == 1..3

ShouldResearchStates ==
    {[brief |-> "brief", iteration |-> n, memory |-> m] :
        n \in IterationValues, m \in Memories}
    \cup {[brief |-> "brief", iteration |-> n] : n \in IterationValues}
    \cup {[brief |-> "brief", memory |-> m] : m \in Memories}

\* what the Critic's backend may answer: a kind, the score it carries and the
\* pass flag the model reports itself
CriticAnswers ==
    [kind : CriticUnitResponses, score : ScoreValues, pass : BOOLEAN]

\* the states CriticAgent.run is called with: brief and iteration are read
\* with state[...], assets with state.get
CriticStates ==
    {[brief |-> "brief", iteration |-> 1, plan |-> <<>>, assets |-> a] :
        a \in AssetLists}
    \cup {[brief |-> "brief", iteration |-> 1, plan |-> <<>>]}

CriticCalls ==
    {[fn |-> "critic_run", state |-> s, response |-> r, threshold |-> t] :
        s \in CriticStates, r \in CriticAnswers, t \in Thresholds}

\* the task texts of the briefs Script is called with (Brief.task is a
\* required string, possibly empty)
BriefTexts == {"brief", "a poster", ""}

ScriptStates == {[brief |-> t, iteration |-> 1] : t \in BriefTexts}

ScriptAnswers ==
    [kind : ScriptResponses,
     plan : Plans(1, RegisteredSkills, {"a prompt"}) \cup {MalformedPlan}]

ScriptCalls ==
    {[fn |-> "script_run", state |-> s, response |-> r] :
        s \in ScriptStates, r \in ScriptAnswers}

\* the responses _parse_json_response is called with: every text of up to
\* MaxText units, and texts around the length the error document is cut at
ShortTexts == UNION {[1..n -> TextUnits] : n \in 0..MaxText}

LongLengths == {ErrorDocLimit - 1, ErrorDocLimit, ErrorDocLimit + 1}

LongTexts ==
    {[k \in 1..n |-> "{"] : n \in LongLengths}
    \cup {<<"json">> \o [k \in 1..n |-> "{"] : n \in LongLengths}

ParseCalls == {[fn |-> "parse_json", response |-> t] : t \in ShortTexts \cup LongTexts}

\* ----------------------------------------------- job adapters: approve_job
\* JobStatus
JobStatuses == {"pending", "running", "completed", "failed", "awaiting_approval"}

JobIds == {"job1", "job2"}

\* what a job's event list may hold before the call
JobEventLists == {<<>>, <<[event |-> "iteration_start"]>>}

\* the _jobs dictionaries the adapters are called on: job1 may be missing,
\* job2 is a bystander waiting for approval
JobStores ==
    {[j \in {"job2"} |-> [status |-> "awaiting_approval", events |-> <<>>]]}
    \cup {[j \in JobIds |->
              IF j = "job1" THEN [status |-> st, events |-> ev]
              ELSE [status |-> "awaiting_approval", events |-> <<>>]] :
            st \in JobStatuses, ev \in JobEventLists}

ApprovalNotes == {"", "Looks good"}

\* JobState.add_event (the timestamp is left out)
add_event(job, event, data) ==
    [job EXCEPT !.events = Append(@, [event |-> event] @@ data)]

\* the status is not looked at
JobManager_approve_job_any_status(jobs, job_id, approved, notes) ==
    IF job_id \notin DOMAIN jobs
    THEN [ok |-> FALSE, jobs |-> jobs]
    ELSE [ok |-> TRUE,
          jobs |-> [jobs EXCEPT ![job_id] =
                      add_event(@, "human_approval",
                                [approved |-> approved, notes |-> notes])]]

\* JobManager.approve_job: the bool it returns and the jobs afterwards
JobManager_approve_job(jobs, job_id, approved, notes) ==
    IF job_id \notin DOMAIN jobs \/ jobs[job_id].status # "awaiting_approval"
    THEN [ok |-> FALSE, jobs |-> jobs]
    ELSE [ok |-> TRUE,
          jobs |-> [jobs EXCEPT ![job_id] =
                      add_event(@, "human_approval",
                                [approved |-> approved, notes |-> notes])]]

\* MCPHandlers.approve_job: the mapping it returns (ok stands for a mapping
\* without an error entry) and the jobs afterwards
MCPHandlers_approve_job(jobs, job_id, approved, notes) ==
    IF job_id \notin DOMAIN jobs
    THEN [ok |-> FALSE, error |-> "not found", jobs |-> jobs]
    ELSE IF jobs[job_id].status # "awaiting_approval"
    THEN [ok |-> FALSE, error |-> "not awaiting approval", jobs |-> jobs]
    ELSE [ok |-> TRUE, job_id |-> job_id, approved |-> approved,
          jobs |-> [jobs EXCEPT ![job_id] =
                      add_event(@, "human_approval",
                                [approved |-> approved, notes |-> notes])]]

ApproveCalls ==
    {[fn |-> "approve_job", adapter |-> a, jobs |-> js, job_id |-> j,
      approved |-> b, notes |-> n] :
        a \in {"web", "mcp"}, js \in JobStores, j \in {"job1", "nonexistent"},
        b \in BOOLEAN, n \in ApprovalNotes}

\* ---------------------------------------------------- DirectorAgent.run
\* the step numbers a plan of n tasks may carry: 1..n, n..1, or none at all
\* (task.get("step", 0))
StepNumberings(n) ==
    {[k \in 1..n |-> k], [k \in 1..n |-> n + 1 - k], [k \in 1..n |-> 0]}

DirectorPlans ==
    UNION {{[k \in 1..n |-> [step |-> st[k], skill |-> sk[k], prompt |-> "a prompt"]] :
               st \in StepNumberings(n), sk \in [1..n -> SkillNames]} :
           n \in 0..MaxPlan}

\* the orders in which m concurrent tasks may complete
CompletionOrders(m) ==
    {d \in [1..m -> 1..m] : \A a, b \in 1..m : d[a] = d[b] => a = b}

DirectorCalls ==
    UNION {{[fn |-> "director_run", plan |-> p, outcomes |-> o, order |-> d] :
               o \in [1..Len(TasksToRun(p)) -> SkillOutcomes],
               d \in CompletionOrders(Len(TasksToRun(p)))} :
           p \in DirectorPlans}

UnitCalls ==
    {[fn |-> "should_research", state |-> s] : s \in ShouldResearchStates}
    \cup {[fn |-> "after_director", state |-> s] : s \in AfterDirectorStates}
    \cup {[fn |-> "after_critic", state |-> s] : s \in AfterCriticStates}
    \cup CriticCalls
    \cup ScriptCalls
    \cup ParseCalls
    \cup ApproveCalls
    \cup DirectorCalls

\* run_loop is not called: one function is called once with drawn arguments
InitUnit ==
    /\ max_iterations = 0
    /\ quality_threshold = 7
    /\ human_in_loop = "false"
    /\ max_concurrent = 1
    /\ env = [plan_cap |-> 0, skills |-> {}, scores |-> {}, research |-> {},
              critic |-> {}, reported |-> {}, script |-> {}, prompts |-> {}]
    /\ InitCommon
    /\ call \in UnitCalls
    /\ ret = NoReturn

Returned(v) == [done |-> TRUE, raised |-> FALSE, value |-> v]

CallShouldResearch ==
    /\ call.fn = "should_research"
    /\ ~ret.done
    /\ ret' = Returned(should_research(call.state))
    /\ UNCHANGED <<cfgVars, loopVars, node, gs, dirVars, outVars, pre, path, call>>

CallAfterDirector ==
    /\ call.fn = "after_director"
    /\ ~ret.done
    /\ ret' = Returned(after_director(call.state))
    /\ UNCHANGED <<cfgVars, loopVars, node, gs, dirVars, outVars, pre, path, call>>

CallAfterCritic ==
    /\ call.fn = "after_critic"
    /\ ~ret.done
    /\ ret' = Returned(after_critic(call.state))
    /\ UNCHANGED <<cfgVars, loopVars, node, gs, dirVars, outVars, pre, path, call>>

\* CriticAgent(llm, prompts_dir, threshold).run(state) with a backend that
\* answers call.response
CallCritic ==
    /\ call.fn = "critic_run"
    /\ ~ret.done
    /\ LET out == CriticRun(call.state, call.response, call.threshold)
       IN ret' = [done |-> TRUE, raised |-> out.raised, value |-> out.critique,
                  llm_calls |-> out.llm_calls]
    /\ UNCHANGED <<cfgVars, loopVars, node, gs, dirVars, outVars, pre, path, call>>

\* ScriptAgent(llm, prompts_dir).run(state) with a backend that answers
\* call.response
CallScript ==
    /\ call.fn = "script_run"
    /\ ~ret.done
    /\ LET out == ScriptRun(call.state, call.response)
       IN ret' = [done |-> TRUE, raised |-> out.raised, value |-> out.plan]
    /\ UNCHANGED <<cfgVars, loopVars, node, gs, dirVars, outVars, pre, path, call>>

\* BaseAgent._parse_json_response(call.response)
CallParse ==
    /\ call.fn = "parse_json"
    /\ ~ret.done
    /\ ret' = [done |-> TRUE] @@ _parse_json_response(call.response)
    /\ UNCHANGED <<cfgVars, loopVars, node, gs, dirVars, outVars, pre, path, call>>

\* approve_job(call.job_id, call.approved, call.notes) on one of the adapters
CallApprove ==
    /\ call.fn = "approve_job"
    /\ ~ret.done
    /\ LET out == IF call.adapter = "web"
                  THEN JobManager_approve_job(call.jobs, call.job_id,
                                              call.approved, call.notes)
                  ELSE MCPHandlers_approve_job(call.jobs, call.job_id,
                                               call.approved, call.notes)
       IN ret' = [done |-> TRUE, raised |-> FALSE] @@ out
    /\ UNCHANGED <<cfgVars, loopVars, node, gs, dirVars, outVars, pre, path, call>>

\* DirectorAgent(...).run(state) on iteration 1 with capabilities that end
\* as call.outcomes says and complete in the order call.order
CallDirector ==
    /\ call.fn = "director_run"
    /\ ~ret.done
    /\ LET out == DirectorRun(call.plan, 1, call.outcomes, call.order)
       IN ret' = [done |-> TRUE, raised |-> out.raised, value |-> out.assets]
    /\ UNCHANGED <<cfgVars, loopVars, node, gs, dirVars, outVars, pre, path, call>>

NextUnit ==
    \/ CallShouldResearch
    \/ CallAfterDirector
    \/ CallAfterCritic
    \/ CallCritic
    \/ CallScript
    \/ CallParse
    \/ CallApprove
    \/ CallDirector

SpecUnit == InitUnit /\ [][NextUnit]_vars

\* ------------------------------------------ job adapters: the event sink
\* the keys of the data mapping run_loop hands to the sink with each event
\* (of brief_loaded, skills_discovered and iteration_start only the keys an
\* adapter reads are kept)
EventKeys(name) ==
    CASE name = "iteration_start" -> {"iteration"}
      [] name = "iteration_timeout" -> {"iteration"}
      [] name = "iteration_complete" ->
           {"iteration", "score", "passed", "asset_count", "best_score"}
      [] name = "loop_complete" -> {"best_score", "best_iteration", "total_assets"}
      [] OTHER -> {}

EventData(e) == [k \in EventKeys(e.name) |-> e[k]]

\* JobState as the adapters create it
NewJob ==
    [status |-> "pending", iteration |-> 0, score |-> 0, best_score |-> 0,
     best_iteration |-> 0, assets |-> <<>>, events |-> <<>>]

\* JobManager._run_job.on_event
JobManager_on_event(job, event, data) ==
    LET j == add_event(job, event, data)
    IN CASE event = "iteration_start" ->
              [j EXCEPT !.iteration = Get(data, "iteration", 0),
                        !.status = "running"]
         [] event = "iteration_complete" ->
              [j EXCEPT !.score = Get(data, "score", 0),
                        !.best_score = Get(data, "best_score", 0),
                        !.best_iteration = Get(data, "best_iteration", 0)]
         [] OTHER -> j

\* MCPHandlers._run_pipeline_async.on_event
MCPHandlers_on_event(job, event, data) ==
    LET j == add_event(job, event, data)
    IN CASE event = "iteration_start" ->
              [j EXCEPT !.iteration = Get(data, "iteration", 0),
                        !.status = "running"]
         [] event = "iteration_complete" ->
              [j EXCEPT !.score = Get(data, "score", 0),
                        !.best_score = Get(data, "best_score", 0),
                        !.best_iteration = Get(data, "best_iteration", 0)]
         [] event = "loop_complete" ->
              [j EXCEPT !.assets = Get(data, "assets", <<>>)]
         [] OTHER -> j

RECURSIVE JobAfterEvents(_, _, _)
\* the job once the sink has been called with each of evs in turn
JobAfterEvents(adapter, job, evs) ==
    IF evs = <<>> THEN job
    ELSE LET e == Head(evs)
             j == IF adapter = "web"
                  THEN JobManager_on_event(job, e.name, EventData(e))
                  ELSE MCPHandlers_on_event(job, e.name, EventData(e))
         IN JobAfterEvents(adapter, j, Tail(evs))

\* _run_job / _run_pipeline_async around run_loop: running before the call,
\* completed when it returns, failed when it raises
JobRecord(adapter) ==
    LET j == JobAfterEvents(adapter, [NewJob EXCEPT !.status = "running"], events)
    IN [j EXCEPT !.status = CASE pc = "done" -> "completed"
                              [] pc = "raised" -> "failed"
                              [] OTHER -> @]

\* JobState.to_summary: asset_count
asset_count(job) == Len(job.assets)

\* ------------------------------------------------------------ observations
EventsNamed(n) == SelectSeq(events, LAMBDA e : e.name = n)

Starts == EventsNamed("iteration_start")

Completes == EventsNamed("iteration_complete")

Timeouts == EventsNamed("iteration_timeout")

SomePassed == \E k \in 1..Len(Completes) : Completes[k].passed

CountOf(seq, x) == Cardinality({k \in 1..Len(seq) : seq[k] = x})

LastNode == IF path = <<>> THEN "none" ELSE path[Len(path)]

CompletedScores == {Completes[k].score : k \in 1..Len(Completes)}

\* the earliest completed iteration whose score is v
EarliestWith(v) ==
    MinOf({Completes[k].iteration : k \in {j \in 1..Len(Completes) : Completes[j].score = v}})

\* ------------------------------------------------------------------ claims

\* C1: in any pass, whatever the Director returns, the Director node runs at
\* most twice before the pass moves on to the Critic.
C1_DirectorAtMostTwice == CountOf(path, "director") <= 2

\* C1 witness: the Director ran twice, came back empty both times, and the
\* pass has been forced on to the Critic.
C1_Witness ==
    /\ pc = "in_pass"
    /\ node = "critic"
    /\ CountOf(path, "director") = 2
    /\ gs.assets = <<>>
    /\ gs.director_retries = 2

\* C2 (as stated): iterations are started 1, 2, ... in order, none is started
\* after a passing one, and a run_loop call that is over without any passing
\* iteration has started exactly max_iterations of them. Stated for calls
\* whose graph was built, so that the refutation does not rest on the
\* configuration attribute.
C2_StopsAtPassOrBudget ==
    /\ \A k \in 1..Len(Starts) : Starts[k].iteration = k
    /\ \A k \in 1..Len(Completes) :
         Completes[k].passed => Completes[k].iteration = Len(Starts)
    /\ (human_in_loop # "absent" /\ pc \in {"done", "raised"} /\ ~SomePassed)
         => Len(Starts) = max_iterations

\* C3: an iteration whose pass timed out leaves the accumulated asset list,
\* plan, critique, memory, messages, best score, best iteration and the
\* commits as they were when it started; only iteration, director_retries
\* and human_approval may differ.
C3_TimeoutDiscardsPass ==
    (pc = "loop_head" /\ pre.outcome = "timeout") =>
        /\ all_assets = pre.all_assets
        /\ state = [pre.state EXCEPT !.iteration = state.iteration,
                                     !.director_retries = state.director_retries,
                                     !.human_approval = state.human_approval]
        /\ best_score = pre.best_score
        /\ best_iteration = pre.best_iteration
        /\ commits = pre.commits

\* C3 witness: the loop had assets and a critique from an earlier iteration,
\* the timed-out pass had already produced assets and a critique of its own,
\* and none of it was kept.
C3_Witness ==
    /\ pc = "loop_head"
    /\ pre.outcome = "timeout"
    /\ pre.all_assets # <<>>
    /\ gs.assets # <<>>
    /\ \A k \in 1..Len(gs.assets) : gs.assets[k].iteration = 0
    /\ gs.critique # state.critique
    /\ gs.plan # state.plan

\* C4 (as stated): at the end of the loop best_score is the maximum score of
\* the completed iterations and best_iteration is the earliest iteration
\* that reached it.
C4_BestIsMaxOfCompleted ==
    (pc = "done" /\ Completes # <<>>) =>
        /\ best_score = MaxOf(CompletedScores)
        /\ best_iteration = EarliestWith(MaxOf(CompletedScores))

\* C4 (amended): at the end of the loop best_score is the larger of 0 and
\* the maximum score of the completed iterations; best_iteration is the
\* earliest completed iteration that reached best_score when best_score is
\* above 0, and 0 when no completed iteration scored above 0.
C4_BestIsMaxAboveZero ==
    pc = "done" =>
        /\ best_score = MaxOf(CompletedScores \cup {0})
        /\ best_score > 0 => best_iteration = EarliestWith(best_score)
        /\ best_score = 0 => best_iteration = 0

\* C4 witness: three completed iterations whose second scored highest.
C4_Witness ==
    /\ pc = "done"
    /\ Len(Completes) = 3
    /\ Completes[1].score = 3
    /\ Completes[2].score = 6
    /\ Completes[3].score = 3
    /\ best_iteration = 2
    /\ best_score = 6

\* C5 (as stated): whenever the loop is over and no iteration passed, tag is
\* called once, for best-v<best_iteration>; when an iteration passed, it is
\* not called. Stated for runs in which an iteration completed.
C5_TagWheneverNonePassed ==
    (pc = "done" /\ Completes # <<>>) =>
        tags = IF SomePassed THEN <<>> ELSE <<best_iteration>>

\* C5 (amended): when the loop is over, tag is called once, for
\* best-v<best_iteration>, if no iteration passed and some completed
\* iteration scored above 0; otherwise it is not called.
C5_TagWhenBestExists ==
    /\ pc = "done" =>
         tags = IF ~SomePassed /\ (\E v \in CompletedScores : v > 0)
                THEN <<best_iteration>> ELSE <<>>
    /\ pc # "done" => tags = <<>>

\* C5 witness: the budget ran out without a pass and the best of several
\* scored iterations was tagged.
C5_Witness ==
    /\ pc = "done"
    /\ ~SomePassed
    /\ Len(Completes) >= 2
    /\ best_iteration = 2
    /\ tags = <<2>>

\* C6: at every moment at most max_concurrent capability invocations are
\* executing.
C6_InFlightWithinLimit == PermitsHeld(task_status) <= max_concurrent

\* C6 witness: the limit is smaller than the plan, it is reached, and a task
\* is held back waiting for a permit.
C6_Witness ==
    /\ node = "director_gather"
    /\ max_concurrent = 2
    /\ PermitsHeld(task_status) = 2
    /\ \E k \in DOMAIN task_status : task_status[k] = "waiting"

DirectorReturned ==
    /\ pc = "in_pass"
    /\ node \in {"director", "critic"}
    /\ LastNode = "director"

\* C7: when a Director run returns, every task it started has been executed
\* to its end whatever its siblings did, the run has not raised, and the
\* assets hold exactly one record for each task whose capability reported
\* success and none for the others.
C7_FailuresIsolated ==
    /\ DirectorReturned =>
         /\ \A k \in DOMAIN task_status : Settled(task_status[k])
         /\ Len(gs.assets) =
               Cardinality({k \in DOMAIN task_status : task_status[k] = "ok"})
         /\ \A k \in DOMAIN task_status :
               Cardinality({j \in 1..Len(gs.assets) :
                               gs.assets[j].step = tasks_to_run[k].step})
                 = IF task_status[k] = "ok" THEN 1 ELSE 0
    /\ ~(/\ pc = "raised"
         /\ LastNode = "director"
         /\ task_status # <<>>)

\* C7 witness: one run with a task that raised, a task whose capability
\* reported failure and a task that succeeded.
C7_Witness ==
    /\ DirectorReturned
    /\ Len(task_status) = 3
    /\ task_status[1] = "raised"
    /\ task_status[2] = "failed"
    /\ task_status[3] = "ok"
    /\ Len(gs.assets) = 1
    /\ gs.assets[1].step = 3

\* C8 (as stated): once the brief is loaded, run_loop never raises.
C8_RunLoopNeverRaises == pc # "raised"

\* C9: when a pass is handed to the graph executor, director_retries is 0
\* and human_approval is None.
C9_ConditionalFieldsReset ==
    (pc = "in_pass" /\ node = "memory") =>
        /\ gs.director_retries = 0
        /\ gs.human_approval = "None"
        /\ state.director_retries = 0
        /\ state.human_approval = "None"

\* C9 witness: the previous iteration left a retry count and an approval.
C9_Witness ==
    /\ pc = "in_pass"
    /\ node = "memory"
    /\ pre.state.director_retries = 1
    /\ pre.state.human_approval = "approved"

FullPasses ==
    {<<"memory">> \o r \o <<"script">> \o d \o <<"critic">> \o h :
        r \in {<<>>, <<"research">>},
        d \in {<<"director">>, <<"director", "director">>},
        h \in {<<>>, <<"human_approval">>}}

IsPrefix(p, q) == Len(p) <= Len(q) /\ SubSeq(q, 1, Len(p)) = p

\* the nodes of the pass in flight whose update has been merged: every node
\* that returned (human_approval writes no message)
MergedNodes ==
    LET wrote == SelectSeq(path, LAMBDA n : n # "human_approval")
    IN IF node = "director_gather" THEN SubSeq(wrote, 1, Len(wrote) - 1) ELSE wrote

\* C11: the nodes of a pass run in the order Memory, Research (only when
\* should_research says so), Script, Director (once or twice), Critic, human
\* approval (only when enabled and after_critic routes to it); a finished pass
\* ran Memory, Script and Critic exactly once; and whenever a node is about
\* to run, the updates of all nodes before it are in the state.
C11_NodeOrder ==
    /\ \E f \in FullPasses : IsPrefix(path, f)
    /\ (pc = "in_pass" /\ node = "END") => path \in FullPasses
    /\ (pc = "in_pass" /\ LastNode = "memory") => node = should_research(gs)
    /\ (pc = "in_pass" /\ LastNode = "research") => node = "script"
    /\ (pc = "in_pass" /\ LastNode = "script") => node = "director"
    /\ (pc = "in_pass" /\ LastNode = "director" /\ node # "director_gather")
          => node = after_director(gs)
    /\ (pc = "in_pass" /\ LastNode = "critic") =>
          /\ node \in {"human_approval", "END"}
          /\ node = "human_approval" <=>
                (human_in_loop = "true" /\ after_critic(gs) = "human_approval")
    /\ (pc = "in_pass" /\ LastNode = "human_approval") => node = "END"
    /\ pc = "in_pass" =>
          /\ gs.messages = state.messages \o MergedNodes
          /\ (gs.human_approval = "approved") <=>
                (\E k \in 1..Len(path) : path[k] = "human_approval")

\* C11 witness: a finished pass that went through every node, the Director
\* twice.
C11_Witness ==
    /\ pc = "in_pass"
    /\ node = "END"
    /\ path = <<"memory", "research", "script", "director", "director",
                "critic", "human_approval">>

\* C12: after a completed iteration k the accumulated list is the list from
\* before the pass, unchanged, followed by the pass's assets in order, each
\* tagged k; every accumulated record carries the number of the iteration
\* that produced it; and state.assets is the accumulated list.
C12_AssetsOnlyGrow ==
    /\ state.assets = all_assets
    /\ \A k \in 1..Len(all_assets) :
          /\ all_assets[k].iteration >= 1
          /\ all_assets[k].iteration = all_assets[k].made_in
    /\ (pre.outcome = "complete" /\ pc \in {"loop_head", "after_loop", "done"}) =>
          /\ IsPrefix(pre.all_assets, all_assets)
          /\ Len(all_assets) = Len(pre.all_assets) + Len(gs.assets)
          /\ \A k \in 1..Len(gs.assets) :
                all_assets[Len(pre.all_assets) + k] =
                    [gs.assets[k] EXCEPT !.iteration = state.iteration]

\* C12 witness: the second completed iteration added an asset behind the
\* one kept from the first.
C12_Witness ==
    /\ pre.outcome = "complete"
    /\ pc = "loop_head"
    /\ state.iteration = 2
    /\ Len(pre.all_assets) = 1
    /\ Len(all_assets) = 2
    /\ all_assets[1].iteration = 1
    /\ all_assets[2].iteration = 2

\* C13: after_director answers "director" exactly when assets is empty (or
\* absent) and director_retries is present and equal to 1, and "critic" in
\* every other case.
C13_AfterDirectorTable ==
    (call.fn = "after_director" /\ ret.done) =>
        LET s == call.state
            empty == "assets" \notin DOMAIN s \/ s.assets = <<>>
            once == "director_retries" \in DOMAIN s /\ s.director_retries = 1
        IN /\ ~ret.raised
           /\ ret.value = IF empty /\ once THEN "director" ELSE "critic"

\* C13 witness: the one retry, granted.
C13_Witness ==
    /\ call.fn = "after_director"
    /\ ret.done
    /\ call.state = [brief |-> "brief", assets |-> <<>>, director_retries |-> 1]
    /\ ret.value = "director"

\* C14: after_critic answers "human_approval" exactly when human_approval is
\* None (or absent) and the critique has a score strictly between 0.5 and
\* 0.9, and ends the pass in every other case.
C14_AfterCriticTable ==
    (call.fn = "after_critic" /\ ret.done) =>
        LET s == call.state
            unresolved == "human_approval" \notin DOMAIN s \/ s.human_approval = "None"
            borderline == /\ "critique" \in DOMAIN s
                          /\ s.critique.present
                          /\ 5 < s.critique.score
                          /\ s.critique.score < 9
        IN /\ ~ret.raised
           /\ ret.value = IF unresolved /\ borderline THEN "human_approval" ELSE "END"

\* C14 witness: a score just above the lower end of the band, approval
\* not yet given.
C14_Witness ==
    /\ call.fn = "after_critic"
    /\ ret.done
    /\ "critique" \in DOMAIN call.state
    /\ call.state.critique.present
    /\ call.state.critique.score = 6
    /\ "human_approval" \in DOMAIN call.state
    /\ call.state.human_approval = "None"
    /\ ret.value = "human_approval"

\* C15: should_research answers "script" exactly when iteration is above 1
\* and memory has a non-empty style_keywords and a non-empty
\* recommendations, and "research" in every other case.
C15_ShouldResearchTable ==
    (call.fn = "should_research" /\ ret.done) =>
        LET s == call.state
            later == "iteration" \in DOMAIN s /\ s.iteration > 1
            informed == /\ "memory" \in DOMAIN s
                        /\ s.memory.style_keywords = "full"
                        /\ s.memory.recommendations = "full"
        IN /\ ~ret.raised
           /\ ret.value = IF later /\ informed THEN "script" ELSE "research"

\* C15 witness: a second iteration whose memory has both entries.
C15_Witness ==
    /\ call.fn = "should_research"
    /\ ret.done
    /\ "iteration" \in DOMAIN call.state
    /\ call.state.iteration = 2
    /\ ret.value = "script"

CriticCalled == call.fn = "critic_run" /\ ret.done

CriticHadAssets == "assets" \in DOMAIN call.state /\ call.state.assets # <<>>

\* C16: called on a state without assets, Critic.run returns score 0.0 and
\* pass false and does not call the backend.
C16_NoAssetsNoCall ==
    (CriticCalled /\ ~CriticHadAssets) =>
        /\ ~ret.raised
        /\ ret.value.present
        /\ ret.value.score = 0
        /\ ~ret.value.pass
        /\ ret.llm_calls = 0

\* C16 witness: no assets, and a backend that would have answered with a
\* passing score.
C16_Witness ==
    /\ CriticCalled
    /\ "assets" \in DOMAIN call.state
    /\ call.state.assets = <<>>
    /\ call.response.kind = "score"
    /\ call.response.score = 9
    /\ call.threshold = 7
    /\ ret.llm_calls = 0

\* C17: when the response is JSON with a readable score, Critic.run returns
\* that score with pass equal to (score >= quality_threshold), whatever
\* pass flag the response carried.
C17_PassRecomputed ==
    (CriticCalled /\ CriticHadAssets) =>
        /\ call.response.kind = "score" =>
              /\ ~ret.raised
              /\ ret.value.score = call.response.score
        /\ (~ret.raised /\ call.response.kind \in {"score", "score_missing"}) =>
              (ret.value.pass <=> ret.value.score >= call.threshold)

\* C17 witness: the model reported pass for a score below the threshold and
\* the critique says fail.
C17_Witness ==
    /\ CriticCalled
    /\ CriticHadAssets
    /\ call.response = [kind |-> "score", score |-> 6, pass |-> TRUE]
    /\ call.threshold = 7
    /\ ~ret.value.pass

\* C18 (as stated): when the response is not JSON or its score cannot be
\* read as a number, Critic.run does not raise and returns score 0.5 and
\* pass false.
C18_CriticDegrades ==
    (/\ CriticCalled
     /\ CriticHadAssets
     /\ call.response.kind \in {"unparseable", "score_not_numeric", "score_null"}) =>
        /\ ~ret.raised
        /\ ret.value.score = 5
        /\ ~ret.value.pass

\* C19: when Script's backend call fails or its response is not JSON,
\* Script.run does not raise and returns a plan with at least one step, the
\* first of which names image_gen and has the brief's task text as prompt.
C19_ScriptFallsBack ==
    (/\ call.fn = "script_run"
     /\ ret.done
     /\ call.response.kind \in {"unparseable", "llm_error"}) =>
        /\ ~ret.raised
        /\ Len(ret.value) >= 1
        /\ ret.value[1].skill = "image_gen"
        /\ ret.value[1].prompt = call.state.brief

\* C19 witness: a response that is not JSON, answered with the fallback
\* plan for the brief "a poster".
C19_Witness ==
    /\ call.fn = "script_run"
    /\ ret.done
    /\ call.response.kind = "unparseable"
    /\ call.state.brief = "a poster"
    /\ ret.value = <<[step |-> 1, skill |-> "image_gen", prompt |-> "a poster"]>>

\* C20: _parse_json_response returns what json.loads gives for the first of
\* (1) the trimmed response, (2) the body of the first fenced block, (3) the
\* span from the first "{" to the last "}" that json.loads accepts; when it
\* accepts none of them the call fails with a JSONDecodeError whose document
\* is the beginning of the trimmed response, 200 characters at most.
C20_ParseOrder ==
    (call.fn = "parse_json" /\ ret.done) =>
        LET text == Strip(call.response)
            whole == Loads(text)
            fenced == IF HasFence(text) THEN Loads(FenceBody(text)) ELSE Unparsed
            braced == IF HasBraces(text) THEN Loads(BraceSpan(text)) ELSE Unparsed
        IN CASE whole.ok -> ~ret.raised /\ ret.value = whole.value
             [] ~whole.ok /\ fenced.ok -> ~ret.raised /\ ret.value = fenced.value
             [] ~whole.ok /\ ~fenced.ok /\ braced.ok ->
                  ~ret.raised /\ ret.value = braced.value
             [] OTHER ->
                  /\ ret.raised
                  /\ ret.error = "JSONDecodeError"
                  /\ IsPrefix(ret.doc, text)
                  /\ ret.doc_chars <= 200
                  /\ ret.doc_chars <= Chars(text)
                  /\ Chars(ret.doc) <= ret.doc_chars

\* C20 witness: a response that is not JSON as a whole, whose fenced block
\* holds null and whose brace span is an empty object; the fenced block wins.
C20_Witness ==
    /\ call.fn = "parse_json"
    /\ ret.done
    /\ call.response = <<"fence", "null", "fence", "{", "}">>
    /\ ~ret.raised
    /\ ret.value = "null"

\* C21: approve_job appends a human_approval event to the job and reports
\* success exactly when the job exists and is awaiting approval; for an
\* unknown job or any other status it reports failure and every job keeps
\* its events and its status. Both adapters.
C21_ApproveOnlyAwaiting ==
    (call.fn = "approve_job" /\ ret.done) =>
        LET known == call.job_id \in DOMAIN call.jobs
            awaiting == known /\ call.jobs[call.job_id].status = "awaiting_approval"
        IN /\ ~ret.raised
           /\ ret.ok <=> awaiting
           /\ DOMAIN ret.jobs = DOMAIN call.jobs
           /\ awaiting =>
                 /\ ret.jobs[call.job_id].events =
                       Append(call.jobs[call.job_id].events,
                              [event |-> "human_approval",
                               approved |-> call.approved, notes |-> call.notes])
                 /\ ret.jobs[call.job_id].status = "awaiting_approval"
                 /\ \A j \in DOMAIN call.jobs \ {call.job_id} :
                       ret.jobs[j] = call.jobs[j]
           /\ ~awaiting => ret.jobs = call.jobs

\* C21 witness: a rejection with a note, recorded on a waiting job that
\* already had an event.
C21_Witness ==
    /\ call.fn = "approve_job"
    /\ ret.done
    /\ call.adapter = "mcp"
    /\ call.job_id = "job1"
    /\ "job1" \in DOMAIN call.jobs
    /\ call.jobs["job1"].status = "awaiting_approval"
    /\ call.jobs["job1"].events # <<>>
    /\ ~call.approved
    /\ ret.ok
    /\ Len(ret.jobs["job1"].events) = 2

DirectorRuns == CountOf(path, "director")

LastEvent == events[Len(events)]

\* C23 (as stated): when the loop is over because an iteration passed,
\* loop_complete reports that iteration as best_iteration and its critique
\* score as best_score.
C23_PassedIsBest ==
    (pc = "done" /\ SomePassed) =>
        /\ LastEvent.name = "loop_complete"
        /\ LastEvent.best_iteration = Completes[Len(Completes)].iteration
        /\ LastEvent.best_score = Completes[Len(Completes)].score

\* the Director has returned in the pass in flight
DirectorHasRun ==
    /\ pc = "in_pass"
    /\ node \in {"director", "critic", "human_approval", "END"}
    /\ DirectorRuns >= 1

\* C24: in every iteration, once the Director has returned, the assets of
\* the pass's state (what after_director inspects and the Critic scores) are
\* exactly the records of the tasks that succeeded in the Director's latest
\* run of this pass, none of them from an earlier iteration; and the Critic
\* answers with its no-assets critique exactly when that run produced none,
\* whatever the loop has accumulated.
C24_PassSeesOwnAssets ==
    /\ DirectorHasRun =>
          /\ gs.assets = SeqFilterOk(tasks_to_run, task_status, gs.iteration)
          /\ \A k \in 1..Len(gs.assets) :
                /\ gs.assets[k].made_in = gs.iteration
                /\ gs.assets[k].iteration = 0
    /\ (pc = "in_pass" /\ node = "director_gather") =>
          (gs.assets = state.assets \/ gs.assets = <<>>)
    /\ (pc = "in_pass" /\ LastNode \in {"critic", "human_approval"}) =>
          (gs.critique = NoAssetCritique <=> gs.assets = <<>>)

\* C24 witness: the second iteration started with an asset accumulated in
\* the first, its Director produced nothing, and the Critic judged nothing.
C24_Witness ==
    /\ pc = "in_pass"
    /\ LastNode = "critic"
    /\ gs.iteration = 2
    /\ state.assets # <<>>
    /\ DirectorRuns = 2
    /\ gs.assets = <<>>
    /\ gs.critique = NoAssetCritique

\* the iteration_complete event of iteration n
CompleteOf(n) ==
    Completes[CHOOSE k \in 1..Len(Completes) : Completes[k].iteration = n]

\* C25 (as stated): at the end of the loop the best-iteration snapshot holds
\* the assets accumulated up to the end of the best iteration and no later
\* ones, the critique of the best iteration, and no messages entry.
C25_SnapshotFrozen ==
    (pc = "done" /\ best_state.taken) =>
        /\ SnapshotAssets(best_state, all_assets) =
              SelectSeq(all_assets, LAMBDA a : a.iteration <= best_iteration)
        /\ best_state.iteration = best_iteration
        /\ best_state.critique.score = CompleteOf(best_iteration).score
        /\ best_state.critique.pass = CompleteOf(best_iteration).passed
        /\ "messages" \notin DOMAIN best_state

\* the positions in tasks_to_run whose capability succeeded, in plan order
Succeeded(outcomes) ==
    SelectSeq([k \in 1..Len(outcomes) |-> k], LAMBDA k : outcomes[k] = "success")

\* C26: for a plan and an outcome of each of its tasks, Director.run returns
\* one asset per successful task, in plan order, each carrying the step of
\* the task that produced it, whatever the order in which the tasks
\* completed.
C26_MergeIgnoresCompletionOrder ==
    (call.fn = "director_run" /\ ret.done) =>
        LET tasks == TasksToRun(call.plan)
            good == Succeeded(call.outcomes)
        IN /\ ~ret.raised
           /\ Len(ret.value) = Len(good)
           /\ \A j \in 1..Len(good) :
                 /\ ret.value[j].step = tasks[good[j]].step
                 /\ ret.value[j].skill = tasks[good[j]].skill
           /\ \A d \in CompletionOrders(Len(tasks)) :
                 DirectorRun(call.plan, 1, call.outcomes, d).assets = ret.value

\* C26 witness: three tasks, the last one finishing first and the first one
\* last, the middle one failing; the assets are those of steps 1 and 3 in
\* that order.
C26_Witness ==
    /\ call.fn = "director_run"
    /\ ret.done
    /\ Len(call.plan) = 3
    /\ call.order = <<3, 2, 1>>
    /\ call.outcomes = <<"success", "failure", "success">>
    /\ Len(ret.value) = 2
    /\ ret.value[1].step = 1
    /\ ret.value[2].step = 3

\* C27: the permits in the limiter and the permits held by executing tasks
\* always add up to the concurrency limit, and outside a Director run, in
\* particular after a pass was cancelled by the timeout while tasks were
\* executing or waiting for a permit, the limiter holds all of them; so a
\* waiting task of any later Director run finds a permit whenever fewer
\* than the limit are executing.
C27_PermitsReturned ==
    /\ permits + PermitsHeld(task_status) = max_concurrent
    /\ (pc # "in_pass" \/ node # "director_gather") => permits = max_concurrent
    /\ (/\ pc = "in_pass"
        /\ node = "director_gather"
        /\ PermitsAwaited(task_status) > 0
        /\ PermitsHeld(task_status) < max_concurrent) => CanAcquire(permits)

\* C27 witness: the pass was cancelled while as many tasks as the limit
\* allows were executing and another one was waiting, and the limiter is
\* full again before the next iteration starts.
C27_Witness ==
    /\ pc = "loop_head"
    /\ pre.outcome = "timeout"
    /\ max_concurrent = 2
    /\ pre.held = 2
    /\ pre.awaited >= 1
    /\ permits = 2
    /\ i < max_iterations

\* the iteration before the one in flight completed (its pass was merged)
PreviousCompleted ==
    \E k \in 1..Len(commits) : commits[k].iteration = gs.iteration - 1

\* C28 (as stated): when the pass of the previous iteration completed and
\* left a memory with non-empty style_keywords and recommendations, the pass
\* in flight goes from Memory to Script without running Research.
C28_ResearchSkippedOnceInformed ==
    (/\ pc = "in_pass"
     /\ LastNode = "memory"
     /\ gs.iteration > 1
     /\ PreviousCompleted
     /\ Truthy(pre.state.memory.style_keywords)
     /\ Truthy(pre.state.memory.recommendations)) => node = "script"

RECURSIVE SumAssetCounts(_)
SumAssetCounts(evs) ==
    IF evs = <<>> THEN 0 ELSE Head(evs).asset_count + SumAssetCounts(Tail(evs))

IterationClosers == {"iteration_complete", "iteration_timeout"}

\* the run_loop call is over, by return or by an exception
CallOver == pc \in {"done", "raised"}

\* C29 (as stated): the events are brief_loaded, skills_discovered, then for
\* each iteration an iteration_start, numbered 1, 2, 3, ..., directly
\* followed by the one iteration_complete or iteration_timeout of that
\* iteration (unless the iteration is still in flight), and, once the call
\* is over, one loop_complete as the last event, whose total_assets is the
\* sum of the asset_count of the iteration_complete events.
C29_EventOrder ==
    /\ Len(events) >= 1 => events[1].name = "brief_loaded"
    /\ Len(events) >= 2 => events[2].name = "skills_discovered"
    /\ \A p \in 3..Len(events) :
          events[p].name \in {"iteration_start", "loop_complete"} \cup IterationClosers
    /\ \A k \in 1..Len(Starts) : Starts[k].iteration = k
    /\ \A p \in 1..Len(events) :
          /\ events[p].name = "iteration_start" =>
                IF p = Len(events) THEN pc = "in_pass"
                ELSE /\ events[p + 1].name \in IterationClosers
                     /\ events[p + 1].iteration = events[p].iteration
          /\ events[p].name \in IterationClosers =>
                events[p - 1].name = "iteration_start"
          /\ events[p].name = "loop_complete" => p = Len(events)
    /\ CallOver =>
          /\ events # <<>>
          /\ LastEvent.name = "loop_complete"
          /\ LastEvent.total_assets = SumAssetCounts(Completes)

\* C30 (as stated): for both adapters, right after an iteration_complete
\* event the job's score, best_score and best_iteration are the loop's
\* current score, best score and best iteration, and after loop_complete the
\* job lists one asset, with its iteration, for each asset the loop
\* accumulated, and asset_count is their number.
C30_JobMirrorsLoop ==
    \A adapter \in {"web", "mcp"} :
        LET job == JobRecord(adapter)
        IN /\ (events # <<>> /\ LastEvent.name = "iteration_complete") =>
                 /\ job.score = CritScore(state)
                 /\ job.best_score = best_score
                 /\ job.best_iteration = best_iteration
           /\ (events # <<>> /\ LastEvent.name = "loop_complete") =>
                 /\ asset_count(job) = Len(all_assets)
                 /\ \A k \in 1..Len(all_assets) :
                       job.assets[k].iteration = all_assets[k].iteration

====
